---- MODULE Spec2Model ----
(***************************************************************************)
(* Gaussian process regression of utils/gpr_visualization.ipynb:           *)
(* SquaredExponentialKernel, cov_matrix and GPR (__init__, predict).       *)
(*                                                                         *)
(* Real numbers are fixed-point integers with Scale units per 1.0, so the  *)
(* code's constant 3e-7 is exactly 3 units.  numpy arrays are records      *)
(* [err, shape, v]: shape is numpy's shape tuple, v the nested sequences   *)
(* of entries, and err the name of the exception the expression raised     *)
(* ("" when it raised none); an exception propagates through every         *)
(* operation that consumes its result, as it does through the Python       *)
(* expression.                                                             *)
(***************************************************************************)
EXTENDS Integers, Sequences, FiniteSets, TLC

\* kernel:     the SquaredExponentialKernel objects that exist, in order of
\*             creation; kernel[1] is the default argument of GPR.__init__,
\*             created once when the class is defined
\* gpr:        the GPR instance (NoInstance before a construction succeeds)
\* last:       the most recent call: its operation, arguments and outcome
\* frame:      the local variables of the most recent predict call that ran
\*             to its end on the instance (None when there is none)
\* inversions: how often np.linalg.inv has run for the instance
\* other:      a second GPR instance (NoInstance while there is none)
\* calls:      for each thread, the predict call it is running on gpr: the
\*             statement it is at, its local variables, the value returned
\*             and the cache the caller read afterwards
VARIABLES kernel, gpr, last, frame, inversions, other, calls

vars == <<kernel, gpr, last, frame, inversions, other, calls>>

(***************************************************************************)
(* Fixed-point arithmetic.                                                 *)
(***************************************************************************)
Scale == 10 ^ 7

Abs(a) == IF a < 0 THEN -a ELSE a

Sign(a) == IF a < 0 THEN -1 ELSE 1

\* |a| * |b| / Scale, rounded to nearest, without exceeding 32 bits.
MulAbs(a, b) ==
  LET R  == 10 ^ 4
      ah == a \div R
      al == a % R
      bh == b \div R
      bl == b % R
      t  == ah * bl + al * bh
  IN  ah * bh * 10 + (t \div 1000)
        + (((t % 1000) * R + al * bl + Scale \div 2) \div Scale)

\* The float product a * b.
Mul(a, b) == Sign(a) * Sign(b) * MulAbs(Abs(a), Abs(b))

\* Long division: q holds the digits so far, r the remainder, n digits to go.
RECURSIVE DivDigits(_, _, _, _)
DivDigits(q, r, b, n) ==
  IF n = 0 THEN (IF 2 * r >= b THEN q + 1 ELSE q)
  ELSE DivDigits(q * 10 + ((r * 10) \div b), (r * 10) % b, b, n - 1)

\* The float quotient a / b (b # 0).
Div(a, b) ==
  Sign(a) * Sign(b) * DivDigits(Abs(a) \div Abs(b), Abs(a) % Abs(b), Abs(b), 7)

\* exp(-k/8) for k = 0 .. 48.
ExpTable ==
  << 10000000, 8824969, 7788008, 6872893, 6065307, 5352614, 4723666,
     4168620, 3678794, 3246525, 2865048, 2528396, 2231302, 1969117,
     1737739, 1533550, 1353353, 1194330, 1053992, 930145, 820850, 724398,
     639279, 564161, 497871, 439369, 387742, 342181, 301974, 266491,
     235177, 207543, 183156, 161635, 142642, 125881, 111090, 98037, 86517,
     76351, 67379, 59462, 52475, 46309, 40868, 36066, 31828, 28088, 24788 >>

\* np.exp(-k/8) for a natural k.
RECURSIVE ExpNegEighths(_)
ExpNegEighths(k) ==
  IF k < Len(ExpTable) THEN ExpTable[k + 1]
  ELSE Mul(ExpTable[Len(ExpTable)], ExpNegEighths(k - (Len(ExpTable) - 1)))

\* s[1] + ... + s[n]
RECURSIVE SumTo(_, _)
SumTo(s, n) == IF n = 0 THEN 0 ELSE s[n] + SumTo(s, n - 1)

SumSeq(s) == SumTo(s, Len(s))

(***************************************************************************)
(* numpy arrays.                                                           *)
(***************************************************************************)
\* The entries v as plain nested sequences (the same value, fully evaluated).
Entries(shape, v) ==
  IF Len(shape) = 0 THEN v
  ELSE IF Len(shape) = 1 THEN v \o <<>>
  ELSE [i \in 1..shape[1] |-> v[i] \o <<>>] \o <<>>

Arr(shape, v) == [err |-> "", shape |-> shape, v |-> Entries(shape, v)]

Raise(e) == [err |-> e, shape |-> <<>>, v |-> 0]

IsErr(a) == a.err # ""

FirstErr(a, b) == IF IsErr(a) THEN a ELSE b

NDim(a) == Len(a.shape)

\* np.array(rows) for a list of equally long lists of floats.
NpArray(rows) ==
  IF rows = <<>> THEN Arr(<<0>>, <<>>)
  ELSE Arr(<<Len(rows), Len(rows[1])>>, rows)

\* a.T
Transpose(a) ==
  IF IsErr(a) \/ NDim(a) < 2 THEN a
  ELSE Arr(<<a.shape[2], a.shape[1]>>,
           [j \in 1..a.shape[2] |-> [i \in 1..a.shape[1] |-> a.v[i][j]]])

\* Sum over k of x[k] * y[k] for two sequences of one length.
RECURSIVE InnerTo(_, _, _)
InnerTo(x, y, n) == IF n = 0 THEN 0 ELSE Mul(x[n], y[n]) + InnerTo(x, y, n - 1)

Inner(x, y) == InnerTo(x, y, Len(x))

Column(a, j) == [i \in 1..a.shape[1] |-> a.v[i][j]]

\* np.dot(a, b) for arrays of at most two dimensions.
NpDot(a, b) ==
  IF IsErr(a) THEN a
  ELSE IF IsErr(b) THEN b
  ELSE IF NDim(a) = 0 /\ NDim(b) = 0 THEN Arr(<<>>, Mul(a.v, b.v))
  ELSE IF NDim(a) = 0 /\ NDim(b) = 1
    THEN Arr(b.shape, [i \in 1..b.shape[1] |-> Mul(a.v, b.v[i])])
  ELSE IF NDim(a) = 1 /\ NDim(b) = 0
    THEN Arr(a.shape, [i \in 1..a.shape[1] |-> Mul(a.v[i], b.v)])
  ELSE IF NDim(a) = 0 \/ NDim(b) = 0
    THEN LET m == IF NDim(a) = 0 THEN b ELSE a
             s == IF NDim(a) = 0 THEN a.v ELSE b.v
         IN  Arr(m.shape, [i \in 1..m.shape[1] |->
                             [j \in 1..m.shape[2] |-> Mul(m.v[i][j], s)]])
  ELSE IF NDim(a) = 1 /\ NDim(b) = 1
    THEN IF a.shape[1] # b.shape[1] THEN Raise("ValueError")
         ELSE Arr(<<>>, Inner(a.v, b.v))
  ELSE IF NDim(a) = 2 /\ NDim(b) = 1
    THEN IF a.shape[2] # b.shape[1] THEN Raise("ValueError")
         ELSE Arr(<<a.shape[1]>>, [i \in 1..a.shape[1] |-> Inner(a.v[i], b.v)])
  ELSE IF NDim(a) = 1 /\ NDim(b) = 2
    THEN IF a.shape[1] # b.shape[1] THEN Raise("ValueError")
         ELSE Arr(<<b.shape[2]>>,
                  [j \in 1..b.shape[2] |-> Inner(a.v, Column(b, j))])
  ELSE IF a.shape[2] # b.shape[1] THEN Raise("ValueError")
  ELSE Arr(<<a.shape[1], b.shape[2]>>,
           [i \in 1..a.shape[1] |->
              [j \in 1..b.shape[2] |-> Inner(a.v[i], Column(b, j))]])

\* The shape two shapes broadcast to, or <<-1>> when they do not broadcast.
BroadcastShape(s, t) ==
  LET n   == IF Len(s) > Len(t) THEN Len(s) ELSE Len(t)
      ps  == [i \in 1..n |-> IF i <= n - Len(s) THEN 1 ELSE s[i - (n - Len(s))]]
      pt  == [i \in 1..n |-> IF i <= n - Len(t) THEN 1 ELSE t[i - (n - Len(t))]]
  IN  IF \E i \in 1..n : ps[i] # pt[i] /\ ps[i] # 1 /\ pt[i] # 1 THEN <<-1>>
      ELSE [i \in 1..n |-> IF ps[i] = 1 THEN pt[i] ELSE ps[i]]

\* Entry idx of the broadcast of array a to len(idx) dimensions.
BroadcastAt(a, idx) ==
  IF NDim(a) = 0 THEN a.v
  ELSE IF NDim(a) = 1
    THEN a.v[IF a.shape[1] = 1 THEN 1 ELSE idx[Len(idx)]]
  ELSE a.v[IF a.shape[1] = 1 THEN 1 ELSE idx[1]]
          [IF a.shape[2] = 1 THEN 1 ELSE idx[2]]

\* a + sign * b under numpy's broadcasting rules.
NpAddSigned(a, b, sign) ==
  IF IsErr(a) THEN a
  ELSE IF IsErr(b) THEN b
  ELSE LET s == BroadcastShape(a.shape, b.shape)
       IN  IF s = <<-1>> THEN Raise("ValueError")
           ELSE IF Len(s) = 0 THEN Arr(s, a.v + sign * b.v)
           ELSE IF Len(s) = 1
             THEN Arr(s, [i \in 1..s[1] |->
                    BroadcastAt(a, <<i>>) + sign * BroadcastAt(b, <<i>>)])
           ELSE Arr(s, [i \in 1..s[1] |-> [j \in 1..s[2] |->
                    BroadcastAt(a, <<i, j>>) + sign * BroadcastAt(b, <<i, j>>)]])

NpAdd(a, b) == NpAddSigned(a, b, 1)

NpSub(a, b) == NpAddSigned(a, b, -1)

\* c * a for a float c.
NpScale(c, a) == NpDot(Arr(<<>>, c), a)

\* np.identity(n)
NpIdentity(n) ==
  Arr(<<n, n>>, [i \in 1..n |-> [j \in 1..n |-> IF i = j THEN Scale ELSE 0]])

\* np.ones(n)
NpOnes(n) == Arr(<<n>>, [i \in 1..n |-> Scale])

\* np.diag(a): the diagonal of a matrix, the diagonal matrix of a vector.
NpDiag(a) ==
  IF IsErr(a) THEN a
  ELSE IF NDim(a) = 2
    THEN LET k == IF a.shape[1] < a.shape[2] THEN a.shape[1] ELSE a.shape[2]
         IN  Arr(<<k>>, [i \in 1..k |-> a.v[i][i]])
  ELSE IF NDim(a) = 1
    THEN Arr(<<a.shape[1], a.shape[1]>>,
             [i \in 1..a.shape[1] |->
                [j \in 1..a.shape[1] |-> IF i = j THEN a.v[i] ELSE 0]])
  ELSE Raise("ValueError")

\* a.flatten()
Flatten(a) ==
  IF IsErr(a) THEN a
  ELSE IF NDim(a) = 0 THEN Arr(<<1>>, <<a.v>>)
  ELSE IF NDim(a) = 1 THEN a
  ELSE Arr(<<a.shape[1] * a.shape[2]>>,
           [k \in 1..(a.shape[1] * a.shape[2]) |->
              a.v[((k - 1) \div a.shape[2]) + 1][((k - 1) % a.shape[2]) + 1]])

(***************************************************************************)
(* np.linalg.inv: Gauss-Jordan elimination with partial pivoting on the    *)
(* rows of [a | identity].  A zero pivot is LAPACK's "Singular matrix".    *)
(***************************************************************************)
\* The smallest nonzero pivot magnitude the fixed-point numbers can invert
\* without leaving 32 bits.
MinPivot == Scale \div 100

\* The first row r in c..n with the largest |m[r][c]|.
PivotRow(m, c, n) ==
  CHOOSE p \in c..n :
    /\ \A r \in c..n : Abs(m[r][c]) <= Abs(m[p][c])
    /\ \A r \in c..(p - 1) : Abs(m[r][c]) < Abs(m[p][c])

\* One elimination step on column c of the n-row augmented matrix m.
EliminateColumn(m, c, n) ==
  LET p       == PivotRow(m, c, n)
      swapped == [r \in 1..n |-> IF r = c THEN m[p] ELSE IF r = p THEN m[c] ELSE m[r]]
      piv     == swapped[c][c]
      prow    == [j \in 1..(2 * n) |-> Div(swapped[c][j], piv)]
  IN  Entries(<<n, 2 * n>>,
        [r \in 1..n |->
           IF r = c THEN prow
           ELSE [j \in 1..(2 * n) |-> swapped[r][j] - Mul(swapped[r][c], prow[j])]])

\* "" when the elimination completes, else "LinAlgError" (a zero pivot) or
\* "range" (a pivot too small for the fixed-point numbers).
RECURSIVE EliminationStatus(_, _, _)
EliminationStatus(m, c, n) ==
  IF c > n THEN ""
  ELSE LET piv == m[PivotRow(m, c, n)][c]
       IN  IF piv = 0 THEN "LinAlgError"
           ELSE IF Abs(piv) < MinPivot THEN "range"
           ELSE EliminationStatus(EliminateColumn(m, c, n), c + 1, n)

RECURSIVE Eliminate(_, _, _)
Eliminate(m, c, n) ==
  IF c > n THEN m ELSE Eliminate(EliminateColumn(m, c, n), c + 1, n)

Augmented(a) ==
  LET n == a.shape[1]
  IN  [i \in 1..n |-> [j \in 1..(2 * n) |->
         IF j <= n THEN a.v[i][j] ELSE IF j - n = i THEN Scale ELSE 0]]

\* np.linalg.inv(a)
NpLinalgInv(a) ==
  IF IsErr(a) THEN a
  ELSE IF NDim(a) < 2 \/ a.shape[1] # a.shape[2] THEN Raise("LinAlgError")
  ELSE LET n  == a.shape[1]
           st == EliminationStatus(Augmented(a), 1, n)
           m  == Eliminate(Augmented(a), 1, n)
       IN  IF st # "" THEN Raise(st)
           ELSE Arr(<<n, n>>, [i \in 1..n |-> [j \in 1..n |-> m[i][n + j]]])

(***************************************************************************)
(* class SquaredExponentialKernel                                          *)
(***************************************************************************)
\* Default arguments of SquaredExponentialKernel.__init__.
DefaultSigmaF == Scale

DefaultLength == 1

\* A constructor that replaces a non-positive parameter by its default.
SquaredExponentialKernelValidated(sigma_f, length) ==
  [sigma_f |-> IF sigma_f <= 0 THEN DefaultSigmaF ELSE sigma_f,
   length  |-> IF length <= 0 THEN DefaultLength ELSE length]

\* SquaredExponentialKernel.__init__: it stores its arguments, whatever they are.
SquaredExponentialKernel(sigma_f, length) ==
  [sigma_f |-> sigma_f, length |-> length]

\* A subtraction that refuses points of different dimensions.
PointDifferenceStrict(a, b) ==
  IF Len(a) # Len(b) THEN Raise("ValueError")
  ELSE NpSub(Arr(<<Len(a)>>, a), Arr(<<Len(b)>>, b))

\* argument_1 - argument_2 for two points (1-d arrays of coordinates).
PointDifference(a, b) ==
  NpSub(Arr(<<Len(a)>>, a), Arr(<<Len(b)>>, b))

\* np.linalg.norm(d)**2 for a vector d of integer coordinates.
NormSquared(d) == SumSeq([i \in 1..Len(d) |-> d[i] * d[i]])

\* SquaredExponentialKernel.__call__: a 0-d array holding the float, or the
\* exception of the subtraction.
KernelCall(self, argument_1, argument_2) ==
  LET d == PointDifference(argument_1, argument_2)
  IN  IF IsErr(d) THEN d
      ELSE Arr(<<>>, Mul(self.sigma_f,
             ExpNegEighths((8 * NormSquared(d.v)) \div (2 * self.length * self.length))))

(***************************************************************************)
(* cov_matrix                                                              *)
(***************************************************************************)
\* [[cov_function(a, b) for a in x1] for b in x2], entries still 0-d arrays.
CovCells(x1, x2, cov_function) ==
  [j \in 1..Len(x2) |-> [i \in 1..Len(x1) |->
     KernelCall(cov_function, x1[i], x2[j])]]

\* The comprehension with its loops exchanged:
\* [[cov_function(b, a) for b in x2] for a in x1].
cov_matrix_by_x1(x1, x2, cov_function) ==
  LET cells == CovCells(x2, x1, cov_function)
  IN  IF \E i \in 1..Len(x1) : \E j \in 1..Len(x2) : IsErr(cells[i][j])
      THEN Raise("ValueError")
      ELSE NpArray([i \in 1..Len(x1) |-> [j \in 1..Len(x2) |-> cells[i][j].v]])

cov_matrix(x1, x2, cov_function) ==
  LET cells == CovCells(x1, x2, cov_function)
  IN  IF \E j \in 1..Len(x2) : \E i \in 1..Len(x1) : IsErr(cells[j][i])
      THEN Raise("ValueError")
      ELSE NpArray([j \in 1..Len(x2) |-> [i \in 1..Len(x1) |-> cells[j][i].v]])

(***************************************************************************)
(* class GPR                                                               *)
(***************************************************************************)
None == [none |-> TRUE]

NoInstance == [instance |-> FALSE]

\* The instance g with an empty last-prediction cache.
Frozen(g) == [g EXCEPT !._memory = None]

\* The constant 3e-7 of __init__ and predict.
EPS == 3

\* Default white_noise_sigma of GPR.__init__ (0.01).
DefaultNoise == 100000

\* An inverse that takes the default noise whatever white_noise_sigma is.
InverseOfInputWithDefaultNoise(data_x, cov_function, noise) ==
  NpLinalgInv(NpAdd(cov_matrix(data_x, data_x, cov_function),
                    NpScale(EPS + DefaultNoise, NpIdentity(Len(data_x)))))

\* The stored inverse: inv(cov_matrix(data_x, data_x) + (3e-7 + noise) * I).
InverseOfInput(data_x, cov_function, noise) ==
  NpLinalgInv(NpAdd(cov_matrix(data_x, data_x, cov_function),
                    NpScale(EPS + noise, NpIdentity(Len(data_x)))))

\* The assignments of GPR.__init__ given the inverse: the outcome and, when
\* no exception was raised, the instance.
InitWith(data_x, data_y, covariance_function, white_noise_sigma, inv) ==
  IF IsErr(inv) THEN [status |-> inv.err, self |-> NoInstance]
  ELSE [status |-> "ok",
        self   |-> [noise |-> white_noise_sigma,
                    data_x |-> data_x,
                    data_y |-> data_y,
                    covariance_function |-> covariance_function,
                    _inverse_of_covariance_matrix_of_input |-> inv,
                    _memory |-> None]]

\* A constructor that rejects an empty training set and training outputs
\* that are not as many as the training inputs.
GPR_init_validated(heap, data_x, data_y, covariance_function, white_noise_sigma) ==
  IF Len(data_x) = 0 \/ Len(data_x) # Len(data_y)
  THEN [status |-> "ValueError", self |-> NoInstance]
  ELSE InitWith(data_x, data_y, covariance_function, white_noise_sigma,
           InverseOfInput(data_x, heap[covariance_function], white_noise_sigma))

\* GPR.__init__; covariance_function is a reference to a kernel object (its
\* place in heap).
GPR_init(heap, data_x, data_y, covariance_function, white_noise_sigma) ==
  InitWith(data_x, data_y, covariance_function, white_noise_sigma,
           InverseOfInput(data_x, heap[covariance_function], white_noise_sigma))

\* A mean that is taken from the cache whenever the cache is filled.
MeanAtValuesMemoized(self, k_lower_left) ==
  IF self._memory # None THEN self._memory.mean
  ELSE Flatten(NpDot(k_lower_left,
                Transpose(NpDot(Arr(<<Len(self.data_y)>>, self.data_y),
                    Transpose(self._inverse_of_covariance_matrix_of_input)))))

\* mean_at_values of predict.
MeanAtValues(self, k_lower_left) ==
  Flatten(NpDot(k_lower_left,
                Transpose(NpDot(Arr(<<Len(self.data_y)>>, self.data_y),
                    Transpose(self._inverse_of_covariance_matrix_of_input)))))

\* cov_at_values of predict before the constant is added.
CovAtValues(self, k_lower_left, k_lower_right) ==
  NpSub(k_lower_right,
        NpDot(k_lower_left,
              NpDot(self._inverse_of_covariance_matrix_of_input,
                    Transpose(k_lower_left))))

\* cov_at_values + 3e-7 * np.ones(np.shape(cov_at_values)[0])
Stabilized(cov_at_values) ==
  IF IsErr(cov_at_values) THEN cov_at_values
  ELSE IF NDim(cov_at_values) = 0 THEN Raise("IndexError")
  ELSE NpAdd(cov_at_values, NpScale(EPS, NpOnes(cov_at_values.shape[1])))

\* The local variables of predict once cov_at_values has its final value;
\* err is the first exception raised, "" when predict ran to its end.
LocalsWithCov(at_values, kll, klr, mean, raw, cov) ==
  [err |-> IF IsErr(kll) THEN kll.err
           ELSE IF IsErr(klr) THEN klr.err
           ELSE IF IsErr(mean) THEN mean.err
           ELSE IF IsErr(raw) THEN raw.err
           ELSE IF IsErr(cov) THEN cov.err
           ELSE NpDiag(cov).err,
   at_values |-> at_values,
   k_lower_left |-> kll, k_lower_right |-> klr,
   mean_at_values |-> mean, cov_raw |-> raw,
   cov_at_values |-> cov, var_at_values |-> NpDiag(cov)]

\* The local variables of predict from the mean on.
LocalsWithMean(self, at_values, kll, klr, mean, raw) ==
  LocalsWithCov(at_values, kll, klr, mean, raw, Stabilized(raw))

\* The local variables of predict given its two covariance matrices.
LocalsWithK(self, at_values, kll, klr) ==
  LocalsWithMean(self, at_values, kll, klr,
                 MeanAtValues(self, kll), CovAtValues(self, kll, klr))

\* The local variables of predict, statement by statement.
PredictLocals(heap, self, at_values) ==
  LocalsWithK(self, at_values,
              cov_matrix(self.data_x, at_values, heap[self.covariance_function]),
              cov_matrix(at_values, at_values, heap[self.covariance_function]))

\* The dictionary predict stores in self._memory.
MemoryOf(locals) ==
  [mean |-> locals.mean_at_values,
   covariance_matrix |-> locals.cov_at_values,
   variance |-> locals.var_at_values]

\* A predict that stores the mean in data_y as well as in the cache.
StoreAndReturnOverwriting(self, locals) ==
  IF locals.err # ""
  THEN [status |-> locals.err, self |-> self, ret |-> None, locals |-> None]
  ELSE [status |-> "ok",
        self   |-> [self EXCEPT !._memory = MemoryOf(locals),
                                !.data_y = locals.mean_at_values.v],
        ret    |-> locals.mean_at_values,
        locals |-> locals]

\* A predict that updates the cache key by key and keeps the variance of the
\* first call.
StoreAndReturnKeepingVariance(self, locals) ==
  IF locals.err # ""
  THEN [status |-> locals.err, self |-> self, ret |-> None, locals |-> None]
  ELSE [status |-> "ok",
        self   |-> [self EXCEPT !._memory =
                      IF self._memory = None THEN MemoryOf(locals)
                      ELSE [MemoryOf(locals) EXCEPT
                              !.variance = self._memory.variance]],
        ret    |-> locals.mean_at_values,
        locals |-> locals]

\* A predict that empties the cache before it computes.
StoreAndReturnClearingFirst(self, locals) ==
  IF locals.err # ""
  THEN [status |-> locals.err, self |-> Frozen(self), ret |-> None,
        locals |-> None]
  ELSE [status |-> "ok",
        self   |-> [self EXCEPT !._memory = MemoryOf(locals)],
        ret    |-> locals.mean_at_values,
        locals |-> locals]

\* The last two statements of predict: the outcome, the instance after the
\* call, the value returned and the locals.
StoreAndReturn(self, locals) ==
  IF locals.err # ""
  THEN [status |-> locals.err, self |-> self, ret |-> None, locals |-> None]
  ELSE [status |-> "ok",
        self   |-> [self EXCEPT !._memory = MemoryOf(locals)],
        ret    |-> locals.mean_at_values,
        locals |-> locals]

\* GPR.predict
GPR_predict(heap, self, at_values) ==
  StoreAndReturn(self, PredictLocals(heap, self, at_values))

(***************************************************************************)
(* The inputs the callers draw from.                                       *)
(***************************************************************************)
\* Longest sequence of training points, and of query points.
MaxTrain == 2

MaxQuery == 2

\* Points of one, two and three coordinates.
Points == { <<0>>, <<1>>, <<0, 1>>, <<1, 0, 1>> }

\* Arrays of at most n points: every point of an array has the same dimension.
PointArrays(n) ==
  { s \in UNION { [1..k -> Points] : k \in 0..n } :
      \A i \in 1..Len(s) : Len(s[i]) = Len(s[1]) }

\* The k observed values 1.0, -2.0, 0.5, 1.0, ...
Observed(i) ==
  IF i % 3 = 1 THEN Scale ELSE IF i % 3 = 2 THEN -2 * Scale ELSE Scale \div 2

OutputsOfLength(k) == [i \in 1..k |-> Observed(i)]

\* data_y for training inputs data_x: as many values as points, or a number
\* of values that differs from the number of points.
Outputs(data_x) ==
  { OutputsOfLength(Len(data_x)),
    OutputsOfLength((Len(data_x) + 1) % (MaxTrain + 1)) }

\* (sigma_f, length) of the kernels the callers construct.
KernelArgs == { <<-Scale, 2>>, <<Scale, -1>> }

\* white_noise_sigma: the default 0.01, and -3e-7.
Noises == { DefaultNoise, -EPS }

(***************************************************************************)
(* The state machine.                                                      *)
(***************************************************************************)
\* The two threads that may call predict on the instance.
Threads == {1, 2}

\* A thread that is not in a predict call.
NoCall ==
  [pc |-> "idle", at_values |-> <<>>, err |-> "",
   k_lower_left |-> None, k_lower_right |-> None,
   mean_at_values |-> None, cov_raw |-> None, cov_at_values |-> None,
   var_at_values |-> None, ret |-> None, seen |-> None]

Init ==
  /\ kernel = << SquaredExponentialKernel(DefaultSigmaF, DefaultLength) >>
  /\ gpr = NoInstance
  /\ last = [op |-> "none", status |-> "ok", arg |-> None, ret |-> None]
  /\ frame = None
  /\ inversions = 0
  /\ other = NoInstance
  /\ calls = [t \in Threads |-> NoCall]

\* SquaredExponentialKernel(sigma_f=..., length=...): a caller constructs the
\* kernel it is about to pass to GPR.
NewKernel(sigma_f, length) ==
  /\ Len(kernel) < 2
  /\ gpr = NoInstance
  /\ kernel' = Append(kernel, SquaredExponentialKernel(sigma_f, length))
  /\ last' = [op |-> "kernel", status |-> "ok",
              arg |-> <<sigma_f, length>>, ret |-> Len(kernel) + 1]
  /\ UNCHANGED <<gpr, frame, inversions, other, calls>>

\* The effect of a construction with outcome r.
Constructed(arg, r) ==
  /\ gpr = NoInstance
  /\ r.status # "range"
  /\ gpr' = r.self
  /\ inversions' = IF r.status = "ok" THEN 1 ELSE 0
  /\ last' = [op |-> "init", status |-> r.status, arg |-> arg, ret |-> None]
  /\ UNCHANGED <<kernel, frame, other, calls>>

\* GPR(data_x, data_y, covariance_function, white_noise_sigma).  A caller that
\* has constructed a kernel passes it; a caller that has not omits the
\* argument and gets the default object kernel[1].
Construct(data_x, data_y, covariance_function, white_noise_sigma) ==
  Constructed([data_x |-> data_x, data_y |-> data_y,
               covariance_function |-> covariance_function,
               white_noise_sigma |-> white_noise_sigma],
              GPR_init(kernel, data_x, data_y, covariance_function,
                       white_noise_sigma))

\* The effect of a predict call with outcome r.
Predicted(at_values, r) ==
  /\ gpr' = r.self
  /\ last' = [op |-> "predict", status |-> r.status,
              arg |-> at_values, ret |-> r.ret]
  /\ frame' = IF r.status = "ok" THEN r.locals ELSE frame
  /\ UNCHANGED <<kernel, inversions, other, calls>>

\* gpr.predict(at_values)
Predict(at_values) ==
  /\ gpr # NoInstance
  /\ Predicted(at_values, GPR_predict(kernel, gpr, at_values))

Next ==
  \/ \E a \in KernelArgs : NewKernel(a[1], a[2])
  \/ \E x \in PointArrays(MaxTrain), n \in Noises :
        \E y \in Outputs(x) : Construct(x, y, Len(kernel), n)
  \/ \E q \in PointArrays(MaxQuery) : Predict(q)

Spec == Init /\ [][Next]_vars

(***************************************************************************)
(* Properties.                                                             *)
(***************************************************************************)
TrainingSize == Len(gpr.data_x)

\* C1: once a GPR instance exists, a step (a predict call) changes at most
\* its _memory: the stored inverse, data_x, data_y, the kernel reference, the
\* kernel object's parameters and the noise stay as construction left them,
\* and np.linalg.inv has run exactly once for the instance.
C1_PredictChangesOnlyMemory ==
  [][gpr # NoInstance =>
       /\ gpr' # NoInstance
       /\ Frozen(gpr') = Frozen(gpr)
       /\ kernel'[gpr'.covariance_function] = kernel[gpr.covariance_function]
       /\ inversions = 1 /\ inversions' = 1]_vars

\* C1 witness: a predict call on two query points has succeeded.
C1_Witness ==
  /\ gpr # NoInstance
  /\ inversions = 1
  /\ last.op = "predict" /\ last.status = "ok" /\ Len(last.arg) = 2
  /\ gpr._memory # None

\* C2: the cache is empty while no predict call has succeeded on the
\* instance, and otherwise is exactly the dictionary of mean, covariance
\* matrix and variance of the most recent successful call, with variance[i]
\* = covariance_matrix[i][i] for every query index i.
C2_MemoryIsLastResult ==
  gpr # NoInstance =>
    IF frame = None THEN gpr._memory = None
    ELSE /\ gpr._memory = [mean |-> frame.mean_at_values,
                           covariance_matrix |-> frame.cov_at_values,
                           variance |-> frame.var_at_values]
         /\ \A i \in 1..Len(frame.at_values) :
              gpr._memory.variance.v[i] = gpr._memory.covariance_matrix.v[i][i]

\* C2 witness: the cache holds the result for a single query point while the
\* instance has two training points.
C2_Witness ==
  /\ gpr # NoInstance
  /\ frame # None
  /\ Len(frame.at_values) = 1
  /\ TrainingSize = 2
  /\ gpr._memory # None

\* Whether the recorded call l, which left cache m, is what call r is.
SameOutcome(l, m, r) ==
  /\ l.status = r.status
  /\ l.ret = r.ret
  /\ l.status = "ok" => m = r.self._memory

\* C3: the outcome of predict (the mean returned, and the covariance and
\* variance it caches) is what the same call gives on the instance with an
\* empty cache: it does not depend on the calls made before.
C3_PredictIgnoresHistory ==
  (gpr # NoInstance /\ last.op = "predict") =>
    SameOutcome(last, gpr._memory, GPR_predict(kernel, Frozen(gpr), last.arg))

\* C3 witness: a successful predict call on an instance with one training
\* point, the kernel being one the caller constructed.
C3_Witness ==
  /\ gpr # NoInstance
  /\ last.op = "predict" /\ last.status = "ok"
  /\ TrainingSize = 1
  /\ gpr.covariance_function = 2

\* C4: a predict call that raises leaves the instance, its cache included,
\* as it was, and a construction that raises leaves no instance.
C4_FailureChangesNothing ==
  [][/\ (last'.op = "predict" /\ last'.status # "ok") =>
          (gpr' = gpr /\ frame' = frame)
     /\ (last'.op = "init" /\ last'.status # "ok") => gpr' = NoInstance]_vars

\* C4 witness: a predict call has failed on an instance whose cache holds an
\* earlier result.
C4_Witness ==
  /\ gpr # NoInstance
  /\ gpr._memory # None
  /\ last.op = "predict" /\ last.status # "ok"

\* A construction has raised.
C4_WitnessInit == last.op = "init" /\ last.status # "ok" /\ gpr = NoInstance

\* C5: the cached covariance is Kxx - Kx^T inv Kx with 3e-7 added to the
\* diagonal entries and to no other entry.
C5_ConstantOnDiagonalOnly ==
  (gpr # NoInstance /\ frame # None /\ NDim(frame.cov_raw) = 2) =>
    \A i \in 1..Len(frame.at_values) : \A j \in 1..Len(frame.at_values) :
      gpr._memory.covariance_matrix.v[i][j] =
        frame.cov_raw.v[i][j] + (IF i = j THEN EPS ELSE 0)

\* Whether m has one row per point of x and one column per point of y, with
\* m[i][j] = k(x[i], y[j]).
RowsFollowFirst(m, x, y, k) ==
  /\ m.shape = <<Len(x), Len(y)>>
  /\ \A i \in 1..Len(x) : \A j \in 1..Len(y) :
       m.v[i][j] = KernelCall(k, x[i], y[j]).v

\* Whether m has one row per point of y, each of one entry per point of x,
\* with m[j][i] = k(x[i], y[j]).
RowsFollowSecond(m, x, y, k) ==
  /\ m.shape = (IF Len(y) = 0 THEN <<0>> ELSE <<Len(y), Len(x)>>)
  /\ \A j \in 1..Len(y) : \A i \in 1..Len(x) :
       m.v[j][i] = KernelCall(k, x[i], y[j]).v

\* C6 as claimed: cov_matrix(X, Y, k) is len(X)-by-len(Y) with M[i][j] =
\* k(X[i], Y[j]); k_lower_left has one row per training point.
C6_RowPerFirstArgument ==
  (gpr # NoInstance /\ frame # None) =>
    RowsFollowFirst(frame.k_lower_left, gpr.data_x, frame.at_values,
                    kernel[gpr.covariance_function])

\* C6 amended: cov_matrix(X, Y, k) has len(Y) rows of len(X) entries with
\* M[j][i] = k(X[i], Y[j]); in predict k_lower_left has one row per query
\* point and one column per training point.
C6_RowPerSecondArgument ==
  (gpr # NoInstance /\ frame # None) =>
    /\ RowsFollowSecond(frame.k_lower_left, gpr.data_x, frame.at_values,
                        kernel[gpr.covariance_function])
    /\ RowsFollowSecond(frame.k_lower_right, frame.at_values, frame.at_values,
                        kernel[gpr.covariance_function])

\* C6 witness: k_lower_left for two distinct query points and one training point.
C6_Witness ==
  /\ gpr # NoInstance
  /\ frame # None
  /\ TrainingSize = 1
  /\ Len(frame.at_values) = 2
  /\ frame.at_values[1] # frame.at_values[2]

\* An array of m zeros.
Zeros(m) == Arr(<<m>>, [i \in 1..m |-> 0])

Dim(points) == Len(points[1])

C9_WitnessRejected ==
  /\ gpr # NoInstance
  /\ TrainingSize >= 1 /\ Dim(gpr.data_x) = 2
  /\ last.op = "predict" /\ last.status = "ValueError"
  /\ Len(last.arg) >= 1 /\ Dim(last.arg) = 3

C10_WitnessLength ==
  /\ gpr # NoInstance
  /\ kernel[gpr.covariance_function].length < 0
  /\ last.op = "predict" /\ last.status = "ok"

(***************************************************************************)
(* Two threads calling predict on one instance.  A thread runs predict     *)
(* statement by statement; the statements of the two calls interleave.     *)
(* Statements that touch nothing but the call's own local variables are    *)
(* taken together with the statement before them.                          *)
(***************************************************************************)
\* The query points the threads pass.
ThreadQueries ==
  { <<>>, << <<0>> >>, << <<1>> >>, << <<0>>, <<1>> >>, << <<0, 1>> >> }

\* The training inputs of the instance the threads share.
SharedInputs == { << <<0>> >>, << <<0>>, <<1>> >> }

\* Thread t's call becomes c; nothing else changes.
Advance(t, c) ==
  /\ calls' = [calls EXCEPT ![t] = c]
  /\ UNCHANGED <<kernel, gpr, last, frame, inversions, other>>

\* The call c after a statement that produced value x for the locals in c2:
\* at statement pc when x is a value, ended by the exception when it is not.
After(c, c2, x, pc) ==
  IF IsErr(x) THEN [c EXCEPT !.pc = "raised", !.err = x.err]
  ELSE [c2 EXCEPT !.pc = pc]

\* Thread t enters gpr.predict(at_values).
Call(t, at_values) ==
  /\ gpr # NoInstance
  /\ calls[t].pc = "idle"
  /\ Advance(t, [NoCall EXCEPT !.pc = "kernels", !.at_values = at_values])

\* The call c with its two covariance matrices.
WithKernels(c, kll, klr) ==
  After(c, [c EXCEPT !.k_lower_left = kll, !.k_lower_right = klr],
        FirstErr(kll, klr), "mean")

\* k_lower_left = cov_matrix(self.data_x, at_values, ...) and
\* k_lower_right = cov_matrix(at_values, at_values, ...)
Kernels(t) ==
  /\ calls[t].pc = "kernels"
  /\ Advance(t, WithKernels(calls[t],
       cov_matrix(gpr.data_x, calls[t].at_values,
                  kernel[gpr.covariance_function]),
       cov_matrix(calls[t].at_values, calls[t].at_values,
                  kernel[gpr.covariance_function])))

\* The call c with its mean.
WithMean(c, mean) == After(c, [c EXCEPT !.mean_at_values = mean], mean, "cov")

\* mean_at_values = np.dot(k_lower_left, np.dot(self.data_y, inverse.T).T).flatten()
Mean(t) ==
  /\ calls[t].pc = "mean"
  /\ Advance(t, WithMean(calls[t], MeanAtValues(gpr, calls[t].k_lower_left)))

\* The call c with its covariance matrix and variance.
WithCov(c, raw, cov, var) ==
  After(c, [c EXCEPT !.cov_raw = raw, !.cov_at_values = cov,
                     !.var_at_values = var],
        FirstErr(raw, FirstErr(cov, var)), "store")

\* The covariance raw, the constant added, and the diagonal.
Diagonal(c, raw, cov) == WithCov(c, raw, cov, NpDiag(cov))

\* cov_at_values = k_lower_right - np.dot(...), + 3e-7 * np.ones(...), and
\* var_at_values = np.diag(cov_at_values)
Covariance(t) ==
  /\ calls[t].pc = "cov"
  /\ Advance(t, Diagonal(calls[t],
       CovAtValues(gpr, calls[t].k_lower_left, calls[t].k_lower_right),
       Stabilized(CovAtValues(gpr, calls[t].k_lower_left,
                              calls[t].k_lower_right))))

\* self._memory = {'mean': ..., 'covariance_matrix': ..., 'variance': ...}
Store(t) ==
  /\ calls[t].pc = "store"
  /\ gpr' = [gpr EXCEPT !._memory = MemoryOf(calls[t])]
  /\ calls' = [calls EXCEPT ![t].pc = "return"]
  /\ UNCHANGED <<kernel, last, frame, inversions, other>>

\* A return statement that hands out the mean held in the cache.
ReturnValueFromMemory(self, c) == self._memory.mean

\* The value of "return mean_at_values": the call's local variable.
ReturnValue(self, c) == c.mean_at_values

\* return mean_at_values
Return(t) ==
  /\ calls[t].pc = "return"
  /\ Advance(t, [calls[t] EXCEPT !.pc = "returned",
                                 !.ret = ReturnValue(gpr, calls[t])])

\* The caller reads model._memory after its predict call has returned.
ReadMemory(t) ==
  /\ calls[t].pc = "returned"
  /\ Advance(t, [calls[t] EXCEPT !.pc = "done", !.seen = gpr._memory])

\* The instance the threads share: GPR(x_values, y_values).
ConstructShared(data_x) ==
  Construct(data_x, OutputsOfLength(Len(data_x)), 1, DefaultNoise)

NextThreads ==
  \/ \E x \in SharedInputs : ConstructShared(x)
  \/ \E t \in Threads : \E q \in ThreadQueries : Call(t, q)
  \/ \E t \in Threads : Kernels(t)
  \/ \E t \in Threads : Mean(t)
  \/ \E t \in Threads : Covariance(t)
  \/ \E t \in Threads : Store(t)
  \/ \E t \in Threads : Return(t)
  \/ \E t \in Threads : ReadMemory(t)

SpecThreads == Init /\ [][NextThreads]_vars

\* The outcome of predict(at_values) on the instance when no other call runs.
Alone(at_values) == GPR_predict(kernel, Frozen(gpr), at_values)

\* Whether call c, when it is over, ended as the outcome r.
EndsAs(c, r) ==
  /\ c.pc \in {"returned", "done"} => (r.status = "ok" /\ c.ret = r.ret)
  /\ c.pc = "raised" => (r.status = c.err /\ c.ret = None)

\* C11: under every interleaving of the statements of two predict calls on
\* one instance, each call returns the mean for its own query points, the
\* value the call returns when it runs alone (and raises what it raises
\* alone), and no step writes the stored inverse.
C11_ConcurrentCallsReturnOwnMean ==
  /\ [](\A t \in Threads : EndsAs(calls[t], Alone(calls[t].at_values)))
  /\ [][gpr # NoInstance =>
          gpr'._inverse_of_covariance_matrix_of_input =
            gpr._inverse_of_covariance_matrix_of_input]_vars

\* C11 witness: both calls have returned, for different query points, and
\* the call that stored first returned after the other call had stored.
C11_Witness ==
  /\ calls[1].pc = "returned" /\ calls[2].pc \in {"return", "returned"}
  /\ calls[1].at_values # calls[2].at_values
  /\ gpr._memory = MemoryOf(calls[2])
  /\ gpr._memory # MemoryOf(calls[1])

\* C14: under every interleaving, the cache a caller reads after its predict
\* call has returned is the complete result of that call: the mean the call
\* returned, with the covariance matrix and the variance for the caller's own
\* query points.
C14_CallerReadsOwnResult ==
  \A t \in Threads :
    calls[t].pc = "done" =>
      /\ calls[t].seen = MemoryOf(calls[t])
      /\ calls[t].seen.mean = calls[t].ret

(***************************************************************************)
(* Two GPR instances.  As in the notebook, a caller either omits           *)
(* covariance_function, and the instance gets the default object           *)
(* kernel[1], or constructs the kernel in the call itself.                 *)
(***************************************************************************)
\* The effect of the second construction with outcome r, heap being the
\* kernel objects that exist after it.
ConstructedOther(heap, arg, r) ==
  /\ gpr # NoInstance
  /\ other = NoInstance
  /\ r.status # "range"
  /\ other' = r.self
  /\ kernel' = heap
  /\ last' = [op |-> "init", status |-> r.status, arg |-> arg, ret |-> None]
  /\ UNCHANGED <<gpr, frame, inversions, calls>>

\* The second construction passing the kernel object covariance_function.
ConstructOtherOn(heap, data_x, data_y, covariance_function, white_noise_sigma) ==
  ConstructedOther(heap,
    [data_x |-> data_x, data_y |-> data_y,
     covariance_function |-> covariance_function,
     white_noise_sigma |-> white_noise_sigma],
    GPR_init(heap, data_x, data_y, covariance_function, white_noise_sigma))

\* model = GPR(data_x, data_y): covariance_function is omitted.
ConstructOtherDefault(data_x, data_y) ==
  ConstructOtherOn(kernel, data_x, data_y, 1, DefaultNoise)

\* model = GPR(data_x, data_y,
\*             covariance_function=SquaredExponentialKernel(sigma_f, length),
\*             white_noise_sigma=...)
ConstructOtherWithKernel(data_x, data_y, sigma_f, length, white_noise_sigma) ==
  ConstructOtherOn(Append(kernel, SquaredExponentialKernel(sigma_f, length)),
                   data_x, data_y, Len(kernel) + 1, white_noise_sigma)

NextShared ==
  \/ \E a \in KernelArgs : NewKernel(a[1], a[2])
  \/ \E x \in PointArrays(MaxTrain), n \in Noises :
        Construct(x, OutputsOfLength(Len(x)), Len(kernel), n)
  \/ \E x \in PointArrays(1) :
        ConstructOtherDefault(x, OutputsOfLength(Len(x)))
  \/ \E x \in PointArrays(1), a \in KernelArgs, n \in Noises :
        ConstructOtherWithKernel(x, OutputsOfLength(Len(x)), a[1], a[2], n)

SpecShared == Init /\ [][NextShared]_vars

\* C12: no two GPR instances hold the same kernel object, instances built
\* without a covariance_function argument included.
C12_KernelsNotShared ==
  (gpr # NoInstance /\ other # NoInstance) =>
    gpr.covariance_function # other.covariance_function

(***************************************************************************)
(* Interpolation: instances built with white_noise_sigma = 0 and the       *)
(* default kernel.  Here the training outputs, and with them the mean, are *)
(* held in units of 1/OutScale, so that outputs of several hundred stay    *)
(* within 32 bits: predict multiplies outputs by kernel quantities only,   *)
(* and Mul(a, y) keeps the unit of y when a is in units of 1/Scale.        *)
(***************************************************************************)
OutScale == 10 ^ 6

\* Largest training output of a single training point, in hundreds.
MaxHundreds == 4

\* The observed values 1.0, -2.0, 0.5, 1.0, ... in units of 1/OutScale.
ObservedOut(i) ==
  IF i % 3 = 1 THEN OutScale ELSE IF i % 3 = 2 THEN -2 * OutScale
  ELSE OutScale \div 2

\* data_y for data_x: one output of up to some hundreds for a single
\* training point, outputs of at most 2 in magnitude for several.
InterpolationOutputs(data_x) ==
  IF Len(data_x) = 1
  THEN { << h * 100 * OutScale >> : h \in (-MaxHundreds)..MaxHundreds }
  ELSE { [i \in 1..Len(data_x) |-> ObservedOut(i)] }

\* GPR(data_x, data_y, white_noise_sigma=0)
ConstructNoiseFree(data_x, data_y) == Construct(data_x, data_y, 1, 0)

NextInterpolation ==
  \/ \E x \in PointArrays(MaxTrain) :
        \E y \in InterpolationOutputs(x) : ConstructNoiseFree(x, y)
  \/ \E q \in PointArrays(MaxQuery) : Predict(q)

SpecInterpolation == Init /\ [][NextInterpolation]_vars

\* 1e-4 in units of 1/OutScale, and 1e-6 in units of 1/Scale.
MeanTolerance == OutScale \div (10 ^ 4)

VarianceTolerance == Scale \div (10 ^ 6)

\* Whether the last predict call returned, at every query point that is
\* training point i, a mean within 1e-4 of data_y[i] and a variance within
\* 1e-6 of zero.
InterpolatesAt(i) ==
  \A j \in 1..Len(last.arg) :
    last.arg[j] = gpr.data_x[i] =>
      /\ Abs(last.ret.v[j] - gpr.data_y[i]) <= MeanTolerance
      /\ Abs(gpr._memory.variance.v[j]) <= VarianceTolerance

\* A predict call has returned on an instance built without noise.
PredictedNoiseFree ==
  /\ gpr # NoInstance /\ gpr.noise = 0
  /\ last.op = "predict" /\ last.status = "ok"

\* C13 as claimed: with white_noise_sigma = 0, for every training set and
\* every training point (x_i, y_i), predict at x_i returns a mean within 1e-4
\* of y_i and a variance near zero.
C13_InterpolatesEveryTrainingSet ==
  PredictedNoiseFree => \A i \in 1..TrainingSize : InterpolatesAt(i)

\* C13 amended: the mean at a training point misses y_i by 3e-7 times the
\* weight the inverse gives the point; with one training point that is
\* 3e-7 * |y_1|, within 1e-4 as long as |y_1| <= 300 (3e-7 * |y_1| <= 1e-4),
\* and with two training points a distance 1 apart and |y_i| <= 2 the mean
\* is within 1e-4 of y_i as well; the variance is within 1e-6 of zero.
C13_InterpolatesModerateOutputs ==
  PredictedNoiseFree =>
    /\ (TrainingSize = 1 /\ Mul(EPS, Abs(gpr.data_y[1])) <= MeanTolerance) =>
         InterpolatesAt(1)
    /\ (TrainingSize = 2 /\ \A i \in 1..2 : Abs(gpr.data_y[i]) <= 2 * OutScale) =>
         (InterpolatesAt(1) /\ InterpolatesAt(2))

\* C13 witness: predict at the training point of an instance with the single
\* training output 300.
C13_Witness ==
  /\ PredictedNoiseFree
  /\ TrainingSize = 1
  /\ gpr.data_y[1] = 300 * OutScale
  /\ last.arg = gpr.data_x

\* predict at both training points of an instance with two training points.
C13_WitnessTwoPoints ==
  /\ PredictedNoiseFree
  /\ TrainingSize = 2
  /\ last.arg = gpr.data_x

====
